---- MODULE Spec2Model ----
(***************************************************************************)
(* A model of the shared infrastructure of analytics_mcp:                  *)
(*   utils/cache.py        TTLCache, _freeze, ttl_memoize                  *)
(*   utils/google_retry.py call_with_retry                                 *)
(*   tools/resolver.py     the memoized resolver lookups                   *)
(*                                                                         *)
(* Seven specifications share the module:                                  *)
(*   SpecCache  the TTLCache API called directly (get, set, clock)         *)
(*   SpecMemo   tasks calling functions decorated with ttl_memoize         *)
(*   SpecMemoKeys  the same, with arguments that cannot be hashed          *)
(*   SpecMemoShapes  the same, with list, tuple and dict arguments         *)
(*   SpecRetry  one call of call_with_retry                                *)
(*   SpecRetryFair  the same call, every invocation and sleep ending       *)
(*   SpecResolver  tasks calling the resolver tools find_ga4_property and  *)
(*              find_gsc_site, which go through the memoized lookups       *)
(*                                                                         *)
(* Time is an integer clock (time.time()); it never runs backwards.        *)
(***************************************************************************)
EXTENDS Integers, Sequences, FiniteSets, TLC

\* ------------------------------------------------------------------------
\* Bounds of the model
\* ------------------------------------------------------------------------
NumKeys == 2
NumVals == 1
MaxTime == 3
MaxTtl == 2
MaxMaxsize == 2
MaxCalls == 2
MemoMaxTime == 2
MemoTtl == 1
MemoMaxsize == 1
MaxRetries == 3

\* Python's None.  Ordinary values are the integers 1..NumVals.
None == 0

CacheKeys == 1..NumKeys
CacheVals == 0..NumVals

\* ------------------------------------------------------------------------
\* State
\* ------------------------------------------------------------------------
VARIABLES
    store,      \* TTLCache._store: entries in dict (insertion) order
    now,        \* the clock read by time.time()
    maxsize,    \* TTLCache.maxsize
    ttl,        \* TTLCache.ttl
    lastOp,     \* SpecCache: the last API call and what it returned
    lastSet,    \* SpecCache: per key, time and value of the latest set
    tasks,      \* SpecMemo: per task, the wrapper call it is running
    log,        \* SpecMemo: the invocations of the underlying functions
    lastEv,     \* SpecMemo: the last step of a wrapper call
    heap,       \* SpecResolver: the result dicts the resolver lookups built
    rpc,        \* SpecRetry: where call_with_retry is
    retries,    \* SpecRetry: the parameters retries, base, cap
    base,
    cap,
    attempt,    \* SpecRetry: the local variable attempt
    sleep_s,    \* SpecRetry: the local variable sleep_s
    nexec,      \* SpecRetry: the number of calls of request_exec
    slept,      \* SpecRetry: the durations of the time.sleep calls
    err,        \* SpecRetry: the failure of the latest call of request_exec
    outcome,    \* SpecRetry: what call_with_retry returned or raised
    execs       \* SpecRetry: what each call of request_exec did, in order

cacheVars == <<store, now, maxsize, ttl>>
histVars == <<lastOp, lastSet>>
memoVars == <<tasks, log, lastEv, heap>>
retryVars == <<rpc, retries, base, cap, attempt, sleep_s, nexec, slept, err,
               outcome, execs>>

\* ------------------------------------------------------------------------
\* Python argument values and _freeze (utils/cache.py)
\* ------------------------------------------------------------------------
\* A Python object is a tagged record: t is its type, v its payload.  The
\* payload of a list, tuple or set is the sequence of its elements in
\* iteration order; the payload of a dict is the sequence of its <<key,
\* value>> items in insertion order.  (The section stands ahead of the
\* others so that TLC, which orders record fields by the first occurrence of
\* their names, compares two objects by their type before their payload.)
PyInt(n) == [t |-> "int", v |-> n]
PyStr(x) == [t |-> "str", v |-> x]
PyTuple(xs) == [t |-> "tuple", v |-> xs]
PyList(xs) == [t |-> "list", v |-> xs]
PyDict(items) == [t |-> "dict", v |-> items]
PyByteArray(bs) == [t |-> "bytearray", v |-> bs]

Range(f) == {f[i] : i \in DOMAIN f}

\* The str values used as dict keys and keyword names, in Python's order.
StrOrder == <<"a", "b", "x", "y">>
StrRank(x) == CHOOSE i \in 1..Len(StrOrder) : StrOrder[i] = x

\* (k1, v1) < (k2, v2) for two items of one dict: the keys differ, so the
\* comparison of the tuples is decided by the keys.
ItemLess(p, q) == StrRank(p.v[1].v) < StrRank(q.v[1].v)

\* Variant: the items are not sorted (insertion order is kept).
Sorted_Unsorted(ps) == ps

\* sorted(...) of the items of one dict.
Sorted(ps) ==
    [i \in 1..Len(ps) |->
        CHOOSE p \in Range(ps) :
            Cardinality({q \in Range(ps) : ItemLess(q, p)}) = i - 1]

\* _freeze
RECURSIVE Freeze(_)
Freeze(obj) ==
    IF obj.t = "dict"
    THEN PyTuple(Sorted([i \in 1..Len(obj.v) |->
                    PyTuple(<<obj.v[i][1], Freeze(obj.v[i][2])>>)]))
    ELSE IF obj.t \in {"list", "tuple", "set"}
    THEN PyTuple([i \in 1..Len(obj.v) |-> Freeze(obj.v[i])])
    ELSE obj

\* hash(obj): a tuple is hashable when its elements are; int and str are; a
\* list, dict, set or bytearray is not (hash raises TypeError).
RECURSIVE Hashable(_)
Hashable(obj) ==
    IF obj.t = "tuple" THEN \A n \in 1..Len(obj.v) : Hashable(obj.v[n])
    ELSE obj.t \in {"int", "str"}

\* ------------------------------------------------------------------------
\* TTLCache (utils/cache.py)
\* ------------------------------------------------------------------------
\* A dict entry  key -> (expiry, value).
Entry(k, e, v) == [key |-> k, expiry |-> e, value |-> v]

StoreKeys(s) == {s[i].key : i \in 1..Len(s)}

\* Position of key k in the dict, 0 when k is not a key.
IndexOf(s, k) ==
    IF k \in StoreKeys(s) THEN CHOOSE i \in 1..Len(s) : s[i].key = k ELSE 0

\* dict.pop(k, None): the dict without k, order of the others kept.
DictPop(s, k) == SelectSeq(s, LAMBDA e : e.key # k)

\* Variant: an existing key is not overwritten (the first writer wins).
DictAssign_KeepExisting(s, k, e, v) ==
    IF k \in StoreKeys(s) THEN s ELSE Append(s, Entry(k, e, v))

\* dict[k] = (e, v): an existing key keeps its position, a new key goes last.
DictAssign(s, k, e, v) ==
    IF k \in StoreKeys(s)
    THEN [i \in 1..Len(s) |-> IF s[i].key = k THEN Entry(k, e, v) ELSE s[i]]
    ELSE Append(s, Entry(k, e, v))

\* Variant: among the entries of minimal expiry, the last in dict order.
OldestIndex_LastOfTies(s) ==
    CHOOSE i \in 1..Len(s) :
        /\ \A j \in 1..Len(s) : s[i].expiry <= s[j].expiry
        /\ \A j \in (i + 1)..Len(s) : s[j].expiry > s[i].expiry

\* Variant: max instead of min (evicts the entry that expires last).
OldestIndex_Newest(s) ==
    CHOOSE i \in 1..Len(s) :
        /\ \A j \in 1..Len(s) : s[i].expiry >= s[j].expiry
        /\ \A j \in 1..(i - 1) : s[j].expiry < s[i].expiry

\* min(self._store, key=lambda k: self._store[k][0]): the first key, in dict
\* order, whose expiry is minimal.
OldestIndex(s) ==
    CHOOSE i \in 1..Len(s) :
        /\ \A j \in 1..Len(s) : s[i].expiry <= s[j].expiry
        /\ \A j \in 1..(i - 1) : s[j].expiry > s[i].expiry

\* Variant: the size test is off by one (keeps maxsize + 1 entries).
EvictIfNeeded_OffByOne(s, m) ==
    IF Len(s) <= m + 1 THEN s ELSE DictPop(s, s[OldestIndex(s)].key)

\* TTLCache._evict_if_needed
EvictIfNeeded(s, m) ==
    IF Len(s) <= m THEN s ELSE DictPop(s, s[OldestIndex(s)].key)

\* Variant: the ttl is not added to the write time.
ExpiryAt_NoTtl(t, T) == t

\* The expiry timestamp written by set.
ExpiryAt(t, T) == t + T

\* TTLCache.set: the store after set(k, v) at time t.
CacheSet(s, k, v, t, T, m) == EvictIfNeeded(DictAssign(s, k, ExpiryAt(t, T), v), m)

\* Variant: the comparison is reversed.
IsExpired_Reversed(t, e) == t < e

\* The test of TTLCache.get that an entry has expired.
IsExpired(t, e) == t > e

\* TTLCache.get: the value returned by get(k) at time t.
CacheGetValue(s, k, t) ==
    IF IndexOf(s, k) = 0 THEN None
    ELSE IF IsExpired(t, s[IndexOf(s, k)].expiry) THEN None
    ELSE s[IndexOf(s, k)].value

\* Variant: a read of a live entry moves its expiry past the time of the read
\* (sliding expiration).
CacheGetStore_Sliding(s, k, t) ==
    IF IndexOf(s, k) = 0 THEN s
    ELSE IF IsExpired(t, s[IndexOf(s, k)].expiry) THEN DictPop(s, k)
    ELSE [i \in 1..Len(s) |->
            IF s[i].key = k /\ s[i].expiry < t + 1
            THEN Entry(k, t + 1, s[i].value) ELSE s[i]]

\* Variant: a read removes every expired entry, whatever its key.
CacheGetStore_PurgeAll(s, k, t) ==
    SelectSeq(s, LAMBDA e : ~IsExpired(t, e.expiry))

\* TTLCache.get: the store after get(k) at time t (lazy removal).
CacheGetStore(s, k, t) ==
    IF IndexOf(s, k) = 0 THEN s
    ELSE IF IsExpired(t, s[IndexOf(s, k)].expiry) THEN DictPop(s, k)
    ELSE s

\* ------------------------------------------------------------------------
\* ttl_memoize (utils/cache.py) and the functions it decorates
\* ------------------------------------------------------------------------
\* Two of the functions decorated with @ttl_memoize(_resolver_cache), by
\* __name__ (the third, _find_gmc_account_internal, is decorated alike).
Fns == {"_find_ga4_property_internal", "_find_gsc_site_internal"}

\* fn.__module__ and fn.__name__
FnModule(f) == "analytics_mcp.tools.resolver"
FnName(f) == f

\* Variant: the key leaves out the function's name.
Key_NoName(f, args, kwargs) == <<FnModule(f), "", Freeze(args), Freeze(kwargs)>>

\* key = (fn.__module__, fn.__name__, _freeze(args), _freeze(kwargs))
Key(f, args, kwargs) == <<FnModule(f), FnName(f), Freeze(args), Freeze(kwargs)>>

\* if hit is not None: the wrapper takes the value cache.get returned for a
\* hit unless it is None.
IsHit(hit) == hit # None

\* Variant: a key is used without being hashed.
KeyHashable_Unchecked(key) == TRUE

\* self._store.get(key) hashes the key: its last two components are the
\* frozen arguments (the first two are str).
KeyHashable(key) == Hashable(key[3]) /\ Hashable(key[4])

\* The calls the tasks make: f(x=1, y=2), f(y=2, x=1), f({"a": 1, "b": 2})
\* and f({"b": 2, "a": 1}).
KwXY == PyDict(<< <<PyStr("x"), PyInt(1)>>, <<PyStr("y"), PyInt(2)>> >>)
KwYX == PyDict(<< <<PyStr("y"), PyInt(2)>>, <<PyStr("x"), PyInt(1)>> >>)
DictAB == PyDict(<< <<PyStr("a"), PyInt(1)>>, <<PyStr("b"), PyInt(2)>> >>)
DictBA == PyDict(<< <<PyStr("b"), PyInt(2)>>, <<PyStr("a"), PyInt(1)>> >>)
Calls ==
    { [args |-> PyTuple(<<>>), kwargs |-> KwXY],
      [args |-> PyTuple(<<>>), kwargs |-> KwYX],
      [args |-> PyTuple(<<DictAB>>), kwargs |-> PyDict(<<>>)],
      [args |-> PyTuple(<<DictBA>>), kwargs |-> PyDict(<<>>)] }

\* The calls of SpecMemoKeys: f(x=1, y=2) and, with an argument that cannot
\* be hashed, f(bytearray(b"q")) and f(1, bytearray(b"q")).
KeyCalls ==
    { [args |-> PyTuple(<<>>), kwargs |-> KwXY],
      [args |-> PyTuple(<<PyByteArray(<<113>>)>>), kwargs |-> PyDict(<<>>)],
      [args |-> PyTuple(<<PyInt(1), PyByteArray(<<113>>)>>),
       kwargs |-> PyDict(<<>>)] }

\* The calls of SpecMemoShapes: f([1, 2]), f((1, 2)), f({"a": 1, "b": 2}) and
\* f([("a", 1), ("b", 2)]).
ListAB ==
    PyList(<< PyTuple(<<PyStr("a"), PyInt(1)>>),
              PyTuple(<<PyStr("b"), PyInt(2)>>) >>)
ShapeCalls ==
    { [args |-> PyTuple(<<PyList(<<PyInt(1), PyInt(2)>>)>>),
       kwargs |-> PyDict(<<>>)],
      [args |-> PyTuple(<<PyTuple(<<PyInt(1), PyInt(2)>>)>>),
       kwargs |-> PyDict(<<>>)],
      [args |-> PyTuple(<<DictAB>>), kwargs |-> PyDict(<<>>)],
      [args |-> PyTuple(<<ListAB>>), kwargs |-> PyDict(<<>>)] }

\* The key of every call, computed once.
KeyOf ==
    [f \in Fns |->
        [c \in Calls \cup KeyCalls \cup ShapeCalls |-> Key(f, c.args, c.kwargs)]]

\* The tasks (coroutines) that call the decorated functions, and the
\* exception an underlying function raises.
Tasks == {"t1", "t2"}
Errors == {"HttpError"}
TypeError == "TypeError: unhashable type"

NoKey == <<"", "", PyTuple(<<>>), PyTuple(<<>>)>>
NoEntry == Entry(NoKey, -1, None)

\* A task is idle, suspended at  await fn(*args, **kwargs)  ("awaiting"), or
\* has left the wrapper with a pair (value, cached) ("returned") or with an
\* exception ("raised").  inv is the number of the invocation of fn it
\* started (its position in log); raced says that another task's call with the same key was
\* suspended in fn while this one was; latest says that this call's
\* cache.set is the latest one for its key; waited says that time
\* passed while the call was suspended in fn.
IdleTask ==
    [pc |-> "idle", fn |-> "", args |-> PyTuple(<<>>), kwargs |-> PyDict(<<>>),
     key |-> NoKey, inv |-> 0, value |-> None, cached |-> FALSE, err |-> "",
     raced |-> FALSE, latest |-> FALSE, waited |-> FALSE]

NoEvent == [type |-> "init", task |-> ""]

\* ------------------------------------------------------------------------
\* call_with_retry (utils/google_retry.py)
\* ------------------------------------------------------------------------
TRANSIENT_CODES == {429, 500, 502, 503, 504}

\* Durations are counted in eighths of a second.
TicksPerSecond == 8

\* The defaults base=0.5 and cap=8.0, and a smaller cap=1.0.
Bases == {TicksPerSecond \div 2}
Caps == {TicksPerSecond, 8 * TicksPerSecond}

\* random.uniform(0, 0.25): 0 <= jitter < 0.25 s.
\* Variant: the jitter may reach 0.25 s.
Jitters_Closed == {j \in 0..TicksPerSecond : 4 * j <= TicksPerSecond}

\* random.uniform(0, 0.25), below 0.25 s
Jitters == {j \in 0..TicksPerSecond : 4 * j < TicksPerSecond}

\* A failure of request_exec.  http: it is an HttpError; status_code: the
\* attribute status_code (NoCode when None or missing); has_resp and
\* resp_status: the attribute resp and its status.
NoCode == -1
Failure(h, sc, hr, rs) ==
    [http |-> h, status_code |-> sc, has_resp |-> hr, resp_status |-> rs]
NoFailure == Failure(FALSE, NoCode, FALSE, NoCode)

StatusCodes == TRANSIENT_CODES \cup {400, 404}
Failures ==
    {Failure(TRUE, c, TRUE, c) : c \in StatusCodes}
        \cup {Failure(TRUE, NoCode, TRUE, c) : c \in {404, 503}}
        \cup {Failure(TRUE, NoCode, FALSE, NoCode),
              Failure(TRUE, 0, TRUE, 0),
              Failure(FALSE, 503, FALSE, NoCode),
              Failure(FALSE, NoCode, FALSE, NoCode)}

\* code = getattr(e, "status_code", None)
\*            or (e.resp.status if hasattr(e, "resp") else None)
Code(e) ==
    IF e.status_code # NoCode /\ e.status_code # 0 THEN e.status_code
    ELSE IF e.has_resp THEN e.resp_status
    ELSE NoCode

\* Variant: one retry more than the retries parameter allows.
Retryable_OneMore(e, a, r) == e.http /\ Code(e) \in TRANSIENT_CODES /\ a <= r

\* Variant: every HttpError is retried while attempts are left.
Retryable_AnyCode(e, a, r) == e.http /\ a < r

\* except HttpError ...: if code in TRANSIENT_CODES and attempt < retries
Retryable(e, a, r) == e.http /\ Code(e) \in TRANSIENT_CODES /\ a < r

RECURSIVE Pow2(_)
Pow2(n) == IF n = 0 THEN 1 ELSE 2 * Pow2(n - 1)

Min(a, b) == IF a <= b THEN a ELSE b

\* Variant: the exponential delay without the cap.
Backoff_NoCap(b, c, a) == b * Pow2(a)

\* min(cap, base * (2 ** attempt))
Backoff(b, c, a) == Min(c, b * Pow2(a))

\* What one call of request_exec() did: it returned v, or it raised e.
Returned(v) == [ok |-> TRUE, value |-> v, failure |-> NoFailure]
Raised(e) == [ok |-> FALSE, value |-> None, failure |-> e]

\* Variant: the failure is replaced by a generic one before it is raised.
Reraised_Generic(e) == NoFailure

\* line 23, the bare raise: the exception being handled leaves the function.
Reraised(e) == e

\* The variables of call_with_retry when no call is modelled.
RetryIdle ==
    /\ rpc = "calling"
    /\ retries = 0
    /\ base = 0
    /\ cap = 0
    /\ attempt = 0
    /\ sleep_s = 0
    /\ nexec = 0
    /\ slept = <<>>
    /\ err = NoFailure
    /\ outcome = [kind |-> "none", value |-> None, failure |-> NoFailure]
    /\ execs = <<>>

\* ------------------------------------------------------------------------
\* SpecCache: the cache API called directly
\* ------------------------------------------------------------------------
NoRec == Entry(0, -1, None)
NeverSet == [t |-> -1, v |-> None]

EverSet == {k \in CacheKeys : lastSet[k].t >= 0}

InitCache ==
    /\ store = <<>>
    /\ now = 0
    /\ maxsize \in 0..MaxMaxsize
    /\ ttl \in 1..MaxTtl
    /\ lastOp = [op |-> "init", key |-> 0, val |-> None, rec |-> NoRec,
                 mid |-> <<>>]
    /\ lastSet = [k \in CacheKeys |-> NeverSet]
    /\ tasks = [i \in Tasks |-> IdleTask]
    /\ log = <<>>
    /\ lastEv = NoEvent
    /\ heap = <<>>
    /\ RetryIdle

\* time passes between two calls
Tick ==
    /\ now < MaxTime
    /\ now' = now + 1
    /\ lastOp' = [op |-> "tick", key |-> 0, val |-> None, rec |-> NoRec,
                  mid |-> store]
    /\ UNCHANGED <<store, maxsize, ttl, lastSet, memoVars, retryVars>>

\* cache.set(k, v)
Set(k, v) ==
    /\ store' = CacheSet(store, k, v, now, ttl, maxsize)
    /\ lastOp' = [op |-> "set", key |-> k, val |-> v, rec |-> NoRec,
                  mid |-> DictAssign(store, k, ExpiryAt(now, ttl), v)]
    /\ lastSet' = [lastSet EXCEPT ![k] = [t |-> now, v |-> v]]
    /\ UNCHANGED <<now, maxsize, ttl, memoVars, retryVars>>

\* cache.get(k)
Get(k) ==
    /\ store' = CacheGetStore(store, k, now)
    /\ lastOp' = [op |-> "get", key |-> k, val |-> CacheGetValue(store, k, now),
                  rec |-> IF IndexOf(store, k) = 0 THEN NoRec
                          ELSE store[IndexOf(store, k)],
                  mid |-> store]
    /\ UNCHANGED <<now, maxsize, ttl, lastSet, memoVars, retryVars>>

NextCache ==
    \/ Tick
    \/ \E k \in CacheKeys, v \in CacheVals : Set(k, v)
    \/ \E k \in CacheKeys : Get(k)

vars == <<store, now, maxsize, ttl, lastOp, lastSet, tasks, log, lastEv,
          heap, rpc, retries, base, cap, attempt, sleep_s, nexec, slept, err,
          outcome, execs>>

SpecCache == InitCache /\ [][NextCache]_vars

InFlight(i) == tasks[i].pc = "awaiting"

\* A new call runs as the first task that is not suspended in a call.
Free(i) == ~InFlight(i) /\ (i = "t2" => InFlight("t1"))

\* ------------------------------------------------------------------------
\* SpecMemo: tasks calling the decorated functions
\* ------------------------------------------------------------------------
InitMemo ==
    /\ store = <<>>
    /\ now = 0
    /\ maxsize = MemoMaxsize
    /\ ttl = MemoTtl
    /\ lastOp = [op |-> "init", key |-> 0, val |-> None, rec |-> NoRec,
                 mid |-> <<>>]
    /\ lastSet = [k \in CacheKeys |-> NeverSet]
    /\ tasks = [i \in Tasks |-> IdleTask]
    /\ log = <<>>
    /\ lastEv = NoEvent
    /\ heap = <<>>
    /\ RetryIdle

\* time passes between two steps
MemoTick ==
    /\ now < MemoMaxTime
    /\ now' = now + 1
    /\ tasks' = [j \in Tasks |->
            IF InFlight(j) THEN [tasks[j] EXCEPT !.waited = TRUE] ELSE tasks[j]]
    /\ lastEv' = [type |-> "tick", task |-> ""]
    /\ UNCHANGED <<store, maxsize, ttl, histVars, log, heap, retryVars>>

\* wrapper, lines 47-51, up to the first suspension: the key is derived and
\* looked up (a key that cannot be hashed makes the lookup raise TypeError,
\* which leaves the wrapper); on a hit the wrapper returns (hit, True); otherwise fn is
\* invoked and the task is suspended until fn completes.  The record of a
\* call that has finished is kept until the next call starts.
Call(i, f, c) ==
    LET key == KeyOf[f][c]
        hit == CacheGetValue(store, key, now)
        racing == {j \in Tasks \ {i} : InFlight(j) /\ tasks[j].key = key}
        begun == [pc |-> "awaiting", fn |-> f, args |-> c.args,
                  kwargs |-> c.kwargs, key |-> key, inv |-> Len(log) + 1,
                  value |-> None, cached |-> FALSE, err |-> "",
                  raced |-> racing # {}, latest |-> FALSE, waited |-> FALSE]
    IN  /\ Free(i)
        /\ IF ~KeyHashable(key)
           THEN /\ tasks' = [j \in Tasks |->
                       IF j = i
                       THEN [begun EXCEPT !.pc = "raised", !.inv = 0,
                                          !.err = TypeError, !.raced = FALSE]
                       ELSE IF InFlight(j) THEN tasks[j] ELSE IdleTask]
                /\ lastEv' = [type |-> "unhashable", task |-> i]
                /\ store' = store
                /\ log' = log
           ELSE IF IsHit(hit)
           THEN /\ tasks' = [j \in Tasks |->
                       IF j = i
                       THEN [begun EXCEPT !.pc = "returned", !.inv = 0,
                                          !.value = hit, !.cached = TRUE,
                                          !.raced = FALSE]
                       ELSE IF InFlight(j) THEN tasks[j] ELSE IdleTask]
                /\ lastEv' = [type |-> "hit", task |-> i]
                /\ store' = CacheGetStore(store, key, now)
                /\ log' = log
           ELSE /\ Len(log) < MaxCalls
                /\ tasks' = [j \in Tasks |->
                       IF j = i THEN begun
                       ELSE IF j \in racing THEN [tasks[j] EXCEPT !.raced = TRUE]
                       ELSE IF InFlight(j) THEN tasks[j] ELSE IdleTask]
                /\ lastEv' = [type |-> "miss", task |-> i]
                /\ store' = CacheGetStore(store, key, now)
                /\ log' = Append(log, f)
        /\ UNCHANGED <<now, maxsize, ttl, histVars, heap, retryVars>>

\* wrapper, lines 51-53: fn returns v; cache.set(key, v); return (v, False).
\* The n-th invocation of an underlying function returns n, or None.
FnReturn(i, v) ==
    /\ InFlight(i)
    /\ v \in {None, tasks[i].inv}
    /\ store' = CacheSet(store, tasks[i].key, v, now, ttl, maxsize)
    /\ tasks' = [j \in Tasks |->
            IF j = i
            THEN [tasks[i] EXCEPT !.pc = "returned", !.value = v,
                                  !.cached = FALSE, !.latest = TRUE]
            ELSE IF tasks[j].key = tasks[i].key
            THEN [tasks[j] EXCEPT !.latest = FALSE]
            ELSE tasks[j]]
    /\ lastEv' = [type |-> "store", task |-> i]
    /\ UNCHANGED <<now, maxsize, ttl, histVars, log, heap, retryVars>>

\* Variant: the failed call is recorded in the cache (as value None).
FnRaise_Cached(i, e) ==
    /\ InFlight(i)
    /\ store' = CacheSet(store, tasks[i].key, None, now, ttl, maxsize)
    /\ tasks' = [tasks EXCEPT ![i].pc = "raised", ![i].err = e]
    /\ lastEv' = [type |-> "raise", task |-> i]
    /\ UNCHANGED <<now, maxsize, ttl, histVars, log, heap, retryVars>>

\* wrapper, line 51: fn raises e; the exception leaves the wrapper.
FnRaise(i, e) ==
    /\ InFlight(i)
    /\ tasks' = [tasks EXCEPT ![i].pc = "raised", ![i].err = e]
    /\ lastEv' = [type |-> "raise", task |-> i]
    /\ UNCHANGED <<store, now, maxsize, ttl, histVars, log, heap, retryVars>>

NextMemo ==
    \/ MemoTick
    \/ \E i \in Tasks, f \in Fns, c \in Calls : Call(i, f, c)
    \/ \E i \in Tasks, v \in 0..MaxCalls : FnReturn(i, v)
    \/ \E i \in Tasks, e \in Errors : FnRaise(i, e)

SpecMemo == InitMemo /\ [][NextMemo]_vars

\* SpecMemoKeys: the same tasks and wrapper, called with arguments that can
\* and with arguments that cannot be hashed.
NextMemoKeys ==
    \/ MemoTick
    \/ \E i \in Tasks, f \in Fns, c \in KeyCalls : Call(i, f, c)
    \/ \E i \in Tasks, v \in 0..MaxCalls : FnReturn(i, v)
    \/ \E i \in Tasks, e \in Errors : FnRaise(i, e)

SpecMemoKeys == InitMemo /\ [][NextMemoKeys]_vars

\* SpecMemoShapes: the same tasks and wrapper, called with lists, tuples and
\* dicts that hold the same elements.
NextMemoShapes ==
    \/ MemoTick
    \/ \E i \in Tasks, f \in Fns, c \in ShapeCalls : Call(i, f, c)
    \/ \E i \in Tasks, v \in 0..MaxCalls : FnReturn(i, v)
    \/ \E i \in Tasks, e \in Errors : FnRaise(i, e)

SpecMemoShapes == InitMemo /\ [][NextMemoShapes]_vars

\* ------------------------------------------------------------------------
\* SpecResolver: tasks calling the resolver tools (tools/resolver.py)
\* ------------------------------------------------------------------------
\* The query strings the tools are called with.
Queries == {"gatedepot.com", "example.org"}

\* The tool that goes through each memoized lookup.
ToolOf(f) ==
    IF f = "_find_ga4_property_internal" THEN "find_ga4_property"
    ELSE "find_gsc_site"

\* The key of the lookup f(query): one positional str, no keyword.
ResolverKey ==
    [f \in Fns |-> [q \in Queries |->
        Key(f, PyTuple(<<PyStr(q)>>), PyDict(<<>>))]]

\* What the remote listing behind a lookup did: it returned the resources
\* ("listed"; the query then matches one of them or none), or it failed
\* ("failed": get_account_summaries raised, or gsc_sites_list returned a
\* dict with an error).
Listings == {"listed", "failed"}

\* The dict a lookup returns.  Every return statement of the lookups builds
\* a dict with the items rows, meta and error, and meta holds the query.
\* has_cached and cached stand for the item "cached" of meta, which the
\* lookups leave out.
ResultDict(q, l) ==
    [query |-> q, listing |-> l, has_cached |-> FALSE, cached |-> FALSE]

\* The dict of a lookup that has not returned yet.
PendingDict == ResultDict("", "pending")

\* Variant: the tool returns the result without the flag.
SetMetaCached_Skip(h, o, c) == h

\* result["meta"]["cached"] = cached, on the dict object o
SetMetaCached(h, o, c) ==
    [h EXCEPT ![o].has_cached = TRUE, ![o].cached = c]

InitResolver == InitMemo

\* find_ga4_property(q) / find_gsc_site(q) up to the first suspension: the
\* wrapper derives the key and looks it up.  On a hit the wrapper returns
\* (hit, True) and the tool sets meta.cached on the dict and returns it.
\* On a miss the lookup is invoked, starts the remote listing, and the task
\* is suspended.  Dict objects are numbered by the invocation that builds
\* them.
Find(i, f, q) ==
    LET key == ResolverKey[f][q]
        hit == CacheGetValue(store, key, now)
        begun == [pc |-> "awaiting", fn |-> f, args |-> PyTuple(<<PyStr(q)>>),
                  kwargs |-> PyDict(<<>>), key |-> key, inv |-> Len(log) + 1,
                  value |-> None, cached |-> FALSE, err |-> "",
                  raced |-> FALSE, latest |-> FALSE, waited |-> FALSE]
    IN  /\ Free(i)
        /\ store' = CacheGetStore(store, key, now)
        /\ IF IsHit(hit)
           THEN /\ tasks' = [j \in Tasks |->
                       IF j = i
                       THEN [begun EXCEPT !.pc = "returned", !.inv = 0,
                                          !.value = hit, !.cached = TRUE,
                                          !.raced = FALSE]
                       ELSE IF InFlight(j) THEN tasks[j] ELSE IdleTask]
                /\ heap' = SetMetaCached(heap, hit, TRUE)
                /\ lastEv' = [type |-> "hit", task |-> i]
                /\ log' = log
           ELSE /\ Len(log) < MaxCalls
                /\ tasks' = [j \in Tasks |->
                       IF j = i THEN begun
                       ELSE IF InFlight(j) THEN tasks[j] ELSE IdleTask]
                /\ heap' = Append(heap, PendingDict)
                /\ lastEv' = [type |-> "miss", task |-> i]
                /\ log' = Append(log, f)
        /\ UNCHANGED <<now, maxsize, ttl, histVars, retryVars>>

\* The remote listing ends in l.  The lookup returns its dict (a failed
\* listing is caught by  except Exception  and turned into a dict with an
\* error), the wrapper stores it and returns (dict, False), and the tool sets
\* meta.cached on the dict and returns it.
ListingEnds(i, l) ==
    LET o == tasks[i].inv
        built == [heap EXCEPT ![o] = ResultDict(tasks[i].args.v[1].v, l)]
    IN  /\ InFlight(i)
        /\ store' = CacheSet(store, tasks[i].key, o, now, ttl, maxsize)
        /\ heap' = SetMetaCached(built, o, FALSE)
        /\ tasks' = [tasks EXCEPT ![i].pc = "returned", ![i].value = o,
                                  ![i].cached = FALSE]
        /\ lastEv' = [type |-> "store", task |-> i]
        /\ UNCHANGED <<now, maxsize, ttl, histVars, log, retryVars>>

NextResolver ==
    \/ MemoTick
    \/ \E i \in Tasks, f \in Fns, q \in Queries : Find(i, f, q)
    \/ \E i \in Tasks, l \in Listings : ListingEnds(i, l)

SpecResolver == InitResolver /\ [][NextResolver]_vars

\* ------------------------------------------------------------------------
\* SpecRetry: one call of call_with_retry
\* ------------------------------------------------------------------------
InitRetry ==
    /\ store = <<>>
    /\ now = 0
    /\ maxsize = 1
    /\ ttl = 1
    /\ lastOp = [op |-> "init", key |-> 0, val |-> None, rec |-> NoRec,
                 mid |-> <<>>]
    /\ lastSet = [k \in CacheKeys |-> NeverSet]
    /\ tasks = [i \in Tasks |-> IdleTask]
    /\ log = <<>>
    /\ lastEv = NoEvent
    /\ heap = <<>>
    /\ rpc = "calling"
    /\ retries \in -1..MaxRetries
    /\ base \in Bases
    /\ cap \in Caps
    /\ attempt = 0
    /\ sleep_s = 0
    /\ nexec = 0
    /\ slept = <<>>
    /\ err = NoFailure
    /\ outcome = [kind |-> "none", value |-> None, failure |-> NoFailure]
    /\ execs = <<>>

\* Variant: the loop goes on after request_exec() has returned.
ExecReturns_Continue(v) ==
    /\ rpc = "calling"
    /\ nexec' = nexec + 1
    /\ outcome' = [kind |-> "returned", value |-> v, failure |-> NoFailure]
    /\ execs' = Append(execs, Returned(v))
    /\ UNCHANGED <<rpc, retries, base, cap, attempt, sleep_s, slept, err>>
    /\ UNCHANGED <<cacheVars, histVars, memoVars>>

\* line 15: request_exec() returns v, and call_with_retry returns it.
ExecReturns(v) ==
    /\ rpc = "calling"
    /\ nexec' = nexec + 1
    /\ rpc' = "returned"
    /\ outcome' = [kind |-> "returned", value |-> v, failure |-> NoFailure]
    /\ execs' = Append(execs, Returned(v))
    /\ UNCHANGED <<retries, base, cap, attempt, sleep_s, slept, err>>
    /\ UNCHANGED <<cacheVars, histVars, memoVars>>

\* lines 15-23: request_exec() raises e.  A retryable failure computes
\* sleep_s and goes to sleep; any other failure leaves call_with_retry.
ExecRaises(e, jitter) ==
    /\ rpc = "calling"
    /\ nexec' = nexec + 1
    /\ err' = e
    /\ execs' = Append(execs, Raised(e))
    /\ IF Retryable(e, attempt, retries)
       THEN /\ sleep_s' = Backoff(base, cap, attempt) + jitter
            /\ rpc' = "sleeping"
            /\ UNCHANGED outcome
       ELSE /\ jitter = 0
            /\ rpc' = "raised"
            /\ outcome' = [kind |-> "raised", value |-> None,
                            failure |-> Reraised(e)]
            /\ UNCHANGED sleep_s
    /\ UNCHANGED <<retries, base, cap, attempt, slept>>
    /\ UNCHANGED <<cacheVars, histVars, memoVars>>

\* Variant: the sleep ends and the attempt is not counted.
Sleep_NoCount ==
    /\ rpc = "sleeping"
    /\ slept' = Append(slept, sleep_s)
    /\ rpc' = "calling"
    /\ UNCHANGED <<retries, base, cap, attempt, sleep_s, nexec, err, outcome,
                   execs>>
    /\ UNCHANGED <<cacheVars, histVars, memoVars>>

\* lines 20-22: time.sleep(sleep_s) ends; attempt += 1; continue.
Sleep ==
    /\ rpc = "sleeping"
    /\ slept' = Append(slept, sleep_s)
    /\ attempt' = attempt + 1
    /\ rpc' = "calling"
    /\ UNCHANGED <<retries, base, cap, sleep_s, nexec, err, outcome, execs>>
    /\ UNCHANGED <<cacheVars, histVars, memoVars>>

NextRetry ==
    \/ \E v \in CacheVals : ExecReturns(v)
    \/ \E e \in Failures, jitter \in Jitters : ExecRaises(e, jitter)
    \/ Sleep

SpecRetry == InitRetry /\ [][NextRetry]_vars

\* SpecRetryFair: the same call when every invocation of request_exec returns
\* or raises and every time.sleep ends, so the loop always takes its next
\* step.
SpecRetryFair == SpecRetry /\ WF_vars(NextRetry)

\* ------------------------------------------------------------------------
\* Properties of TTLCache (checked under SpecCache)
\* ------------------------------------------------------------------------

\* C1: TTL expiry.  In a run where at most maxsize distinct keys have been
\* set, a get(k) whose probe time is earlier than t + T, where t is the time
\* of the latest set(k, v) and T the ttl, returns v; a get(k) whose probe time
\* is later than t + T returns absent (None).
C1_TtlExpiry ==
    (/\ lastOp.op = "get"
     /\ lastOp.key \in EverSet
     /\ Cardinality(EverSet) <= maxsize)
    => LET t == lastSet[lastOp.key].t
           v == lastSet[lastOp.key].v
       IN  /\ (now < t + ttl => lastOp.val = v)
           /\ (now > t + ttl => lastOp.val = None)

\* C1 witness: a key set to a real value has been read back before its
\* expiry time; and one has been probed after it and found absent.
C1_WitnessLive ==
    /\ lastOp.op = "get"
    /\ lastOp.key \in EverSet
    /\ Cardinality(EverSet) <= maxsize
    /\ lastSet[lastOp.key].v # None
    /\ now < lastSet[lastOp.key].t + ttl
    /\ now > lastSet[lastOp.key].t
    /\ lastOp.val = lastSet[lastOp.key].v

\* C2: get never returns the value of an entry whose expiry timestamp is
\* earlier than the current time: such an entry is reported as absent.
C2_NoStaleRead ==
    (/\ lastOp.op = "get"
     /\ lastOp.rec # NoRec
     /\ lastOp.rec.expiry < now)
    => lastOp.val = None

\* C2 witness: a get found an entry holding a real value whose expiry had
\* passed, and reported it absent.
C2_Witness ==
    /\ lastOp.op = "get"
    /\ lastOp.rec # NoRec
    /\ lastOp.rec.expiry < now
    /\ lastOp.rec.value # None
    /\ lastOp.val = None

\* C3: with a positive maxsize, after every set the store holds at most
\* maxsize entries, expired ones included.
C3_SizeBound ==
    (maxsize >= 1 /\ lastOp.op = "set") => Len(store) <= maxsize

\* C3 witness: a set on a full store that held an expired entry (the
\* insertion made it larger than maxsize) has returned.
C3_Witness ==
    /\ maxsize >= 1
    /\ lastOp.op = "set"
    /\ Len(lastOp.mid) > maxsize
    /\ Len(store) = maxsize
    /\ \E i \in 1..Len(lastOp.mid) : lastOp.mid[i].expiry < now

\* The sequence s without its i-th element.
RemoveAt(s, i) == [j \in 1..(Len(s) - 1) |-> IF j < i THEN s[j] ELSE s[j + 1]]

\* C4: when the insertion made by set leaves more than maxsize entries,
\* exactly one entry is removed and its expiry timestamp is the smallest of
\* all entries present after the insertion; otherwise no entry is removed.
C4_EvictOldest ==
    lastOp.op = "set" =>
        IF Len(lastOp.mid) > maxsize
        THEN \E i \in 1..Len(lastOp.mid) :
                /\ store = RemoveAt(lastOp.mid, i)
                /\ \A j \in 1..Len(lastOp.mid) :
                       lastOp.mid[i].expiry <= lastOp.mid[j].expiry
        ELSE store = lastOp.mid

\* C4 witness: a set evicted an entry while another entry with a strictly
\* later expiry stayed in the store.
C4_Witness ==
    /\ lastOp.op = "set"
    /\ Len(lastOp.mid) > maxsize
    /\ Len(store) = Len(lastOp.mid) - 1
    /\ \E i \in 1..Len(lastOp.mid) :
          /\ lastOp.mid[i].key \notin StoreKeys(store)
          /\ \E j \in 1..Len(store) : store[j].expiry > lastOp.mid[i].expiry
          /\ lastOp.mid[i].key # lastOp.key

\* C4 witness: a set that did not exceed maxsize removed nothing.
C4_WitnessNoEvict ==
    /\ lastOp.op = "set"
    /\ Len(lastOp.mid) <= maxsize
    /\ Len(store) >= 2

\* The step is a call get(k); lastOp' holds k, the entry found and the value
\* returned.
IsGet == lastOp'.op = "get" /\ lastOp'.mid = store

\* C17: a get of a key whose entry has not expired returns the entry's value
\* and leaves the store as it was: same keys, values, expiry timestamps and
\* order.  Hence every entry of the store carries the value and the expiry
\* t + ttl of the latest set of its key at time t, however many reads
\* followed.
C17_NoSlidingExpiration ==
    /\ [][(IsGet /\ lastOp'.rec # NoRec /\ now <= lastOp'.rec.expiry)
            => (store' = store /\ lastOp'.val = lastOp'.rec.value)]_vars
    /\ [](\A n \in 1..Len(store) :
            /\ store[n].expiry = lastSet[store[n].key].t + ttl
            /\ store[n].value = lastSet[store[n].key].v)

\* C17 witness: a get read a live entry some time after the set that wrote
\* it (and, ttl being 2, would still be live after a sliding refresh).
C17_Witness ==
    /\ lastOp.op = "get"
    /\ lastOp.rec # NoRec
    /\ now <= lastOp.rec.expiry
    /\ now > lastSet[lastOp.key].t
    /\ lastOp.rec.expiry = lastSet[lastOp.key].t + ttl
    /\ IndexOf(store, lastOp.key) # 0
    /\ store[IndexOf(store, lastOp.key)] = lastOp.rec

\* C18: a get(k) after the expiry of k's entry returns None and removes
\* that entry and no other in the same call; a get of a key that is not in
\* the store returns None and changes nothing; and an entry leaves the store
\* only by a get of its own key after its expiry, by a set of its own key,
\* or by the eviction of a set that exceeded maxsize: time alone removes
\* nothing, so expired entries that are not read stay.
C18_LazyExpiry ==
    [][/\ (IsGet /\ lastOp'.rec # NoRec /\ now > lastOp'.rec.expiry)
            => /\ lastOp'.val = None
               /\ store' = RemoveAt(store, IndexOf(store, lastOp'.key))
               /\ lastOp'.key \notin StoreKeys(store')
       /\ (IsGet /\ lastOp'.rec = NoRec)
            => (store' = store /\ lastOp'.val = None)
       /\ \A n \in 1..Len(store) :
            (\A m \in 1..Len(store') : store'[m] # store[n])
                => \/ /\ lastOp'.op = "get"
                      /\ lastOp'.key = store[n].key
                      /\ now > store[n].expiry
                   \/ /\ lastOp'.op = "set"
                      /\ \/ lastOp'.key = store[n].key
                         \/ Len(lastOp'.mid) > maxsize]_vars

\* C18 witness: a get removed the expired entry of its key while the
\* expired entry of another key, not read, stayed in the store.
C18_Witness ==
    /\ lastOp.op = "get"
    /\ lastOp.rec # NoRec
    /\ now > lastOp.rec.expiry
    /\ Len(lastOp.mid) = 2
    /\ Len(store) = 1
    /\ store[1].key # lastOp.key
    /\ now > store[1].expiry

\* C18 witness: a get of a key that is not in the store, with another key's
\* expired entry in the store.
C18_WitnessAbsent ==
    /\ lastOp.op = "get"
    /\ lastOp.rec = NoRec
    /\ store = lastOp.mid
    /\ Len(store) >= 1
    /\ now > store[1].expiry

\* C19: with maxsize >= 1, immediately after set(k, v) the store holds k
\* with value v and expiry now + ttl, and when the set evicted an entry it
\* was the entry of another key, also when the new entry's expiry is the
\* smallest in the store.
C19_SetAlwaysInserts ==
    (lastOp.op = "set" /\ maxsize >= 1)
        => /\ \E n \in 1..Len(store) :
                 store[n] = Entry(lastOp.key, now + ttl, lastOp.val)
           /\ Len(lastOp.mid) > maxsize
                 => \E i \in 1..Len(lastOp.mid) :
                        /\ lastOp.mid[i].key # lastOp.key
                        /\ store = RemoveAt(lastOp.mid, i)

\* C19 witness: a set evicted an entry when all entries, the new one
\* included, had the same expiry; the new entry stayed.
C19_Witness ==
    /\ lastOp.op = "set"
    /\ maxsize >= 1
    /\ Len(lastOp.mid) > maxsize
    /\ \A n \in 1..Len(lastOp.mid) : lastOp.mid[n].expiry = now + ttl
    /\ lastOp.key \in StoreKeys(store)

\* ------------------------------------------------------------------------
\* Properties of ttl_memoize (checked under SpecMemo)
\* ------------------------------------------------------------------------
\* Python's ==  on argument values: dicts compare without regard to the
\* insertion order, lists and tuples element by element.
RECURSIVE PyEq(_, _)
PyEq(a, b) ==
    IF a.t # b.t THEN FALSE
    ELSE IF a.t = "dict"
    THEN /\ Len(a.v) = Len(b.v)
         /\ \A i \in 1..Len(a.v) : \E j \in 1..Len(b.v) :
                a.v[i][1] = b.v[j][1] /\ PyEq(a.v[i][2], b.v[j][2])
    ELSE IF a.t \in {"list", "tuple"}
    THEN /\ Len(a.v) = Len(b.v)
         /\ \A i \in 1..Len(a.v) : PyEq(a.v[i], b.v[i])
    ELSE a.v = b.v

\* Two calls of the same function with equal arguments.
SameCall(a, b) ==
    a.fn = b.fn /\ PyEq(a.args, b.args) /\ PyEq(a.kwargs, b.kwargs)

IsLookup(ev) == ev.type \in {"hit", "miss"}

\* The underlying function fn has been invoked at least once.
Invoked(f) == \E n \in 1..Len(log) : log[n] = f

\* C5: memoization round trip.  The first call of a memoized function with
\* arguments A is not served from the cache and returns (result, False); a
\* second call with the same A made immediately after it returns
\* (result, True) with the same result, and the underlying function is not
\* invoked again.
C5_RoundTrip ==
    /\ [](\A i \in Tasks :
            (tasks[i].pc = "returned" /\ tasks[i].cached) => Invoked(tasks[i].fn))
    /\ [][(/\ lastEv.type = "store"
           /\ IsLookup(lastEv')
           /\ SameCall(tasks[lastEv.task], tasks'[lastEv'.task]))
          => (/\ ~tasks[lastEv.task].cached
              /\ lastEv'.type = "hit"
              /\ tasks'[lastEv'.task].pc = "returned"
              /\ tasks'[lastEv'.task].cached
              /\ tasks'[lastEv'.task].value = tasks[lastEv.task].value
              /\ log' = log)]_vars

\* Task i leaves the wrapper with the exception raised by fn in this step.
Raises(i) == tasks[i].pc = "awaiting" /\ tasks'[i].pc = "raised"

\* C6: no negative caching.  When the underlying function fails, the failure
\* reaches the caller and the step writes nothing to the cache; the next call
\* with the same arguments (no other call with that key being in flight
\* meanwhile) invokes the underlying function again.
C6_NoNegativeCaching ==
    [][/\ \A i \in Tasks :
            Raises(i) => (/\ store' = store
                          /\ log' = log
                          /\ tasks'[i].err \in Errors)
       /\ (/\ lastEv.type = "raise"
           /\ ~tasks[lastEv.task].raced
           /\ IsLookup(lastEv')
           /\ SameCall(tasks[lastEv.task], tasks'[lastEv'.task]))
          => (/\ lastEv'.type = "miss"
              /\ tasks'[lastEv'.task].pc = "awaiting"
              /\ log' = Append(log, tasks[lastEv.task].fn))]_vars

\* C6 witness: after a failed call the function has been invoked a second
\* time and has failed again, with no other call in flight; the caller holds
\* the exception and the cache holds nothing.
C6_Witness ==
    /\ lastEv = [type |-> "raise", task |-> "t1"]
    /\ tasks["t1"].pc = "raised"
    /\ tasks["t1"].err = "HttpError"
    /\ ~tasks["t1"].raced
    /\ tasks["t1"].inv = 2
    /\ log[1] = log[2]
    /\ store = <<>>

C7_WitnessDictArg ==
    /\ tasks["t1"].pc = "returned"
    /\ tasks["t2"].pc = "returned"
    /\ tasks["t1"].args = PyTuple(<<DictAB>>)
    /\ tasks["t2"].args = PyTuple(<<DictBA>>)
    /\ tasks["t1"].fn = tasks["t2"].fn
    /\ tasks["t1"].key = tasks["t2"].key
    /\ Len(store) = 1

\* C8: two decorated functions sharing the cache never serve each other's
\* results: the value returned by a hit for function f was produced by an
\* invocation of f.
C8_NoCrossFunctionHit ==
    \A i \in Tasks :
        (tasks[i].pc = "returned" /\ tasks[i].cached)
        => /\ tasks[i].value \in 1..Len(log)
           /\ log[tasks[i].value] = tasks[i].fn

\* C8 witness: a call of one function has missed although the cache holds a
\* live result of the other function for equal arguments.
C8_Witness ==
    \E i \in Tasks : \E n \in 1..Len(store) :
        /\ lastEv = [type |-> "miss", task |-> i]
        /\ store[n].key[2] # FnName(tasks[i].fn)
        /\ store[n].key[3] = tasks[i].key[3]
        /\ store[n].key[4] = tasks[i].key[4]
        /\ store[n].value # None
        /\ ~IsExpired(now, store[n].expiry)

\* C9: two calls with the same key that both looked up the cache before
\* either stored a result both invoke the underlying function, each returns
\* its own value with flag False, and once both have returned the cache holds
\* the value of the one that called set last.
C9_RaceLastWriterWins ==
    \A i, j \in Tasks :
        (/\ i # j
         /\ tasks[i].pc = "returned" /\ tasks[j].pc = "returned"
         /\ tasks[i].raced /\ tasks[j].raced
         /\ tasks[i].key = tasks[j].key)
        => /\ ~tasks[i].cached
           /\ tasks[i].inv \in 1..Len(log)
           /\ tasks[i].inv # tasks[j].inv
           /\ log[tasks[i].inv] = tasks[i].fn
           /\ tasks[i].value \in {None, tasks[i].inv}
           /\ tasks[i].latest # tasks[j].latest
           /\ tasks[i].latest =>
                /\ IndexOf(store, tasks[i].key) # 0
                /\ store[IndexOf(store, tasks[i].key)].value = tasks[i].value

\* C9 witness: both racing calls have returned different values, and the
\* cache holds the value of the call that looked up first and stored last.
C9_Witness ==
    /\ tasks["t1"].pc = "returned" /\ tasks["t2"].pc = "returned"
    /\ tasks["t1"].raced /\ tasks["t2"].raced
    /\ tasks["t1"].key = tasks["t2"].key
    /\ ~tasks["t1"].cached /\ ~tasks["t2"].cached
    /\ tasks["t1"].value = 1 /\ tasks["t2"].value = 2
    /\ tasks["t1"].latest
    /\ store[IndexOf(store, tasks["t1"].key)].value = 1

\* The round trip for results other than None: the one case in which the
\* round trip above fails is a result of None.
RoundTripNonNone ==
    [][(/\ lastEv.type = "store"
        /\ tasks[lastEv.task].value # None
        /\ IsLookup(lastEv')
        /\ SameCall(tasks[lastEv.task], tasks'[lastEv'.task]))
       => (/\ ~tasks[lastEv.task].cached
           /\ lastEv'.type = "hit"
           /\ tasks'[lastEv'.task].cached
           /\ tasks'[lastEv'.task].value = tasks[lastEv.task].value
           /\ log' = log)]_vars

\* The wrapper stores a result of None like any other result: after fn
\* returned None the store holds the key with value None and expiry now + ttl.
NoneStored ==
    [][\A i \in Tasks :
        (InFlight(i) /\ lastEv' = [type |-> "store", task |-> i]
            /\ tasks'[i].pc = "returned" /\ tasks'[i].value = None)
        => \E n \in 1..Len(store') :
              store'[n] = Entry(tasks[i].key, now + ttl, None)]_vars

\* C20: when the underlying function returns None, the wrapper stores the
\* result under the key, and a second call with the same arguments made
\* immediately after it is served from the cache: it returns (None, True)
\* and the underlying function is not invoked again.
C20_NoneMemoized ==
    /\ NoneStored
    /\ [][(/\ lastEv.type = "store"
           /\ tasks[lastEv.task].value = None
           /\ IsLookup(lastEv')
           /\ SameCall(tasks[lastEv.task], tasks'[lastEv'.task]))
          => (/\ lastEv'.type = "hit"
              /\ tasks'[lastEv'.task].pc = "returned"
              /\ tasks'[lastEv'.task].cached
              /\ tasks'[lastEv'.task].value = None
              /\ log' = log)]_vars

\* ------------------------------------------------------------------------
\* Properties of call_with_retry (checked under SpecRetry)
\* ------------------------------------------------------------------------
Finished == rpc \in {"returned", "raised"}

\* C10: a failure is retried only if its status code is one of 429, 500,
\* 502, 503, 504.  A failure with any other status code, or with none, at
\* any attempt is raised to the caller at once: no sleep follows it and
\* request_exec is not called again, so such a failure at the first attempt
\* ends the call after exactly 1 attempt.
C10_NonTransientShortCircuit ==
    /\ [](rpc = "sleeping" => Code(err) \in {429, 500, 502, 503, 504})
    /\ []((nexec > 0 /\ rpc # "returned"
                /\ Code(err) \notin {429, 500, 502, 503, 504})
            => /\ rpc = "raised"
               /\ outcome.kind = "raised"
               /\ outcome.failure = err
               /\ nexec = Len(slept) + 1
               /\ (attempt = 0 => nexec = 1))
    /\ [][Finished => (nexec' = nexec /\ slept' = slept /\ rpc' = rpc
                          /\ outcome' = outcome)]_vars

\* C10 witness: the first attempt failed with 404 and the call has raised
\* after 1 attempt and no sleep.
C10_Witness ==
    /\ rpc = "raised"
    /\ Code(err) = 404
    /\ outcome.failure = err
    /\ nexec = 1
    /\ slept = <<>>
    /\ retries >= 1

\* C10 witness: a later attempt (after a retried 503) failed with a status
\* that is not transient and the call has raised with attempts left.
C10_WitnessLater ==
    /\ rpc = "raised"
    /\ err.http
    /\ Code(err) \notin TRANSIENT_CODES
    /\ nexec = 2
    /\ Len(slept) = 1
    /\ attempt < retries

\* A call of request_exec that raised an HttpError whose status is one of
\* the transient codes.
TransientFailure(x) ==
    ~x.ok /\ x.failure.http /\ Code(x.failure) \in {429, 500, 502, 503, 504}

LastExec == execs[Len(execs)]

\* The delay min(cap, base * 2^n) before retry n (n = 0 for the first retry).
BaseDelay(n) == Min(cap, base * Pow2(n))

\* C11: when request_exec raises a transient failure k times, k <= retries,
\* and then returns, call_with_retry returns the value request_exec
\* returned, request_exec has been called exactly k + 1 times, one sleep lies
\* between two consecutive calls, each sleep is its delay min(cap, base * 2^n)
\* plus a jitter below 0.25 s, and these delays never decrease and never
\* exceed cap.  Before the success, the k transient failures do not end the
\* call.
C11_RetrySuccess ==
    /\ ((\A n \in 1..Len(execs) : TransientFailure(execs[n]))
            /\ Len(execs) <= retries)
        => rpc \in {"calling", "sleeping"}
    /\ (/\ Len(execs) > 0
        /\ LastExec.ok
        /\ \A n \in 1..(Len(execs) - 1) : TransientFailure(execs[n])
        /\ Len(execs) - 1 <= retries)
        => /\ rpc = "returned"
           /\ outcome.kind = "returned"
           /\ outcome.value = LastExec.value
           /\ nexec = Len(execs)
           /\ Len(slept) = Len(execs) - 1
           /\ \A n \in 1..Len(slept) :
                 /\ slept[n] >= BaseDelay(n - 1)
                 /\ 4 * (slept[n] - BaseDelay(n - 1)) < TicksPerSecond
                 /\ BaseDelay(n - 1) <= cap
                 /\ (n > 1 => BaseDelay(n - 2) <= BaseDelay(n - 1))

\* C11 witness: two transient failures, then a success: 3 attempts, and the
\* second delay is longer than the first.
C11_Witness ==
    /\ rpc = "returned"
    /\ Len(execs) = 3
    /\ TransientFailure(execs[1])
    /\ TransientFailure(execs[2])
    /\ outcome.value = LastExec.value
    /\ outcome.value # None
    /\ BaseDelay(0) < BaseDelay(1)

\* C11 witness: three transient failures, then a success, with the delay
\* held at cap from the second retry on.
C11_WitnessCapped ==
    /\ rpc = "returned"
    /\ Len(execs) = 4
    /\ BaseDelay(1) = cap
    /\ BaseDelay(2) = cap
    /\ base * Pow2(2) > cap

\* C12: when every call of request_exec raises a transient failure and
\* retries = R >= 0, call_with_retry raises at the (R + 1)-th call of
\* request_exec, not earlier and not later, and it has slept exactly R times.
C12_RetryExhaustion ==
    (retries >= 0 /\ \A n \in 1..Len(execs) : TransientFailure(execs[n]))
        => /\ Len(execs) <= retries + 1
           /\ nexec = Len(execs)
           /\ (Len(execs) <= retries => rpc \in {"calling", "sleeping"})
           /\ (Len(execs) = retries + 1
                 => /\ rpc = "raised"
                    /\ outcome.kind = "raised"
                    /\ nexec = retries + 1
                    /\ Len(slept) = retries)

\* C12 witness: retries = 2 and three transient failures: the call has
\* raised after 3 attempts and 2 sleeps.
C12_Witness ==
    /\ retries = 2
    /\ rpc = "raised"
    /\ \A n \in 1..Len(execs) : TransientFailure(execs[n])
    /\ nexec = 3
    /\ Len(slept) = 2

\* C12 witness: retries = 0: the first transient failure is raised.
C12_WitnessZero ==
    /\ retries = 0
    /\ rpc = "raised"
    /\ Len(execs) = 1
    /\ TransientFailure(execs[1])
    /\ slept = <<>>

\* C13: when call_with_retry ends in failure, the failure it raises is the
\* one the last call of request_exec raised, with the same type and status;
\* a call that has ended after a failing last attempt has raised; and
\* call_with_retry returns a value only if the last call of request_exec
\* returned that value.
C13_FailurePropagated ==
    /\ rpc = "raised"
        => /\ Len(execs) > 0
           /\ ~LastExec.ok
           /\ outcome.kind = "raised"
           /\ outcome.failure = LastExec.failure
    /\ (Finished /\ Len(execs) > 0 /\ ~LastExec.ok) => rpc = "raised"
    /\ outcome.kind = "returned"
        => /\ Len(execs) > 0
           /\ LastExec.ok
           /\ outcome.value = LastExec.value
    /\ Finished <=> outcome.kind # "none"

\* C13 witness: retries exhausted: the 503 of the last attempt is raised,
\* after an earlier attempt failed with another transient status.
C13_Witness ==
    /\ rpc = "raised"
    /\ Len(execs) >= 2
    /\ attempt = retries
    /\ Code(LastExec.failure) = 503
    /\ Code(execs[1].failure) # 503
    /\ outcome.failure = LastExec.failure
    /\ outcome.failure.http

\* C13 witness: a failure that is not transient, after a retried one.
C13_WitnessNonTransient ==
    /\ rpc = "raised"
    /\ Len(execs) = 2
    /\ Code(LastExec.failure) = 404
    /\ outcome.failure = LastExec.failure

\* C14: with time in ticks of 1/TicksPerSecond s, the sleep before retry n
\* (n = 0 for the first retry) is at least min(cap, base * 2^n) and less
\* than min(cap, base * 2^n) + 0.25 s; retry n is preceded by exactly the
\* sleeps 0..n.
C14_BackoffSchedule ==
    /\ Len(slept) = attempt
    /\ \A n \in 0..(Len(slept) - 1) :
          /\ slept[n + 1] >= BaseDelay(n)
          /\ 4 * (slept[n + 1] - BaseDelay(n)) < TicksPerSecond
    /\ rpc = "sleeping"
          => /\ sleep_s >= BaseDelay(attempt)
             /\ 4 * (sleep_s - BaseDelay(attempt)) < TicksPerSecond

\* C14 witness: the first sleep was base with no jitter, the third one was
\* cap (smaller than base * 4) with the largest jitter.
C14_Witness ==
    /\ Len(slept) >= 3
    /\ slept[1] = base
    /\ cap < base * 4
    /\ slept[3] > cap

\* C14 witness: a run where the delay doubles before it reaches cap.
C14_WitnessDoubling ==
    /\ Len(slept) >= 3
    /\ slept[2] = 2 * base
    /\ slept[3] = 4 * base + 1
    /\ 4 * base < cap

\* ------------------------------------------------------------------------
\* Properties of the resolver tools (checked under SpecResolver)
\* ------------------------------------------------------------------------
\* The task whose tool call returns in this step.
Returns(i) ==
    /\ lastEv'.task = i
    /\ lastEv'.type \in {"hit", "store"}
    /\ tasks'[i].pc = "returned"

\* The store holds an entry for key k that has not expired.
Live(k) ==
    \E n \in 1..Len(store) : store[n].key = k /\ now <= store[n].expiry

\* C15: when a resolver tool returns, the item meta.cached of the dict it
\* returns equals the flag the memoized lookup returned with that dict: it
\* is False when this call invoked the lookup and the dict is the one this
\* invocation built, and True when the dict was found in the cache; a call
\* finds the dict in the cache exactly when the store holds an entry of its
\* key that has not expired, and then no lookup is invoked.
C15_CachedFlag ==
    [][\A i \in Tasks :
        /\ Returns(i)
            => /\ heap'[tasks'[i].value].has_cached
               /\ heap'[tasks'[i].value].cached = tasks'[i].cached
               /\ lastEv'.type = "store"
                    => /\ ~tasks'[i].cached
                       /\ tasks'[i].value = tasks[i].inv
                       /\ log[tasks[i].inv] = tasks[i].fn
               /\ lastEv'.type = "hit"
                    => /\ tasks'[i].cached
                       /\ Live(tasks'[i].key)
                       /\ log' = log
        /\ (lastEv'.task = i /\ lastEv'.type = "miss" /\ log' # log)
            => ~Live(tasks'[i].key)]_vars

\* C15 witness: a tool call has returned, from the cache, the dict that an
\* earlier call with the same query computed, and meta.cached is True.
C15_Witness ==
    \E i \in Tasks :
        /\ tasks[i].pc = "returned"
        /\ tasks[i].cached
        /\ lastEv = [type |-> "hit", task |-> i]
        /\ Len(log) = 1
        /\ heap[tasks[i].value].query = tasks[i].args.v[1].v
        /\ heap[tasks[i].value].has_cached
        /\ heap[tasks[i].value].cached

\* C15 witness: the call that computed the result has returned it with
\* meta.cached False.
C15_WitnessComputed ==
    \E i \in Tasks :
        /\ tasks[i].pc = "returned"
        /\ ~tasks[i].cached
        /\ lastEv = [type |-> "store", task |-> i]
        /\ heap[tasks[i].value].has_cached
        /\ ~heap[tasks[i].value].cached

\* C16: the result of a lookup whose remote listing failed is never held by
\* the cache, and no tool call is served from the cache with such a result:
\* a lookup with the same query after a failed one invokes the lookup (and
\* its remote listing) again.
C16_FailureNotRetained ==
    /\ [](\A n \in 1..Len(store) : heap[store[n].value].listing # "failed")
    /\ [][\A i \in Tasks :
            (Returns(i) /\ lastEv'.type = "hit")
                => heap'[tasks'[i].value].listing # "failed"]_vars

\* ------------------------------------------------------------------------
\* Further properties of ttl_memoize (checked under SpecMemo)
\* ------------------------------------------------------------------------
\* fn returns to task i in this step, and the wrapper stores the result.
Stores(i) ==
    /\ InFlight(i)
    /\ lastEv' = [type |-> "store", task |-> i]
    /\ tasks'[i].pc = "returned"

\* Task i makes a call in this step (the wrapper looks the key up).
Looks(i) == lastEv'.task = i /\ IsLookup(lastEv')

\* C21: the entry written by a miss expires ttl after the time at which fn
\* completed and the result was stored, whenever the call started; a hit
\* leaves the store, and so the expiry, as it was; and a call whose key has
\* no entry, or an entry whose expiry has passed, is a miss: the expired
\* entry is removed, fn is invoked again, and when fn completes the call
\* returns flag False and stores a fresh entry.
C21_ExpiryFromCompletion ==
    [][\A i \in Tasks :
        /\ Stores(i)
            => /\ ~tasks'[i].cached
               /\ \E n \in 1..Len(store') :
                     store'[n] = Entry(tasks[i].key, now + ttl, tasks'[i].value)
        /\ (Looks(i) /\ lastEv'.type = "hit") => store' = store
        /\ (Looks(i) /\ ~Live(tasks'[i].key))
            => /\ lastEv'.type = "miss"
               /\ tasks'[i].pc = "awaiting"
               /\ log' = Append(log, tasks'[i].fn)
               /\ tasks'[i].inv = Len(log')
               /\ tasks'[i].key \notin StoreKeys(store')]_vars

\* C21 witness: time passed while fn ran, and the entry stored at its
\* completion expires ttl after the completion.
C21_Witness ==
    \E i \in Tasks :
        /\ lastEv = [type |-> "store", task |-> i]
        /\ tasks[i].waited
        /\ tasks[i].value # None
        /\ \E n \in 1..Len(store) :
              store[n] = Entry(tasks[i].key, now + ttl, tasks[i].value)

\* C21 witness: the entry of the first invocation has expired, the call made
\* after that has invoked fn a second time and has stored a fresh entry.
C21_WitnessRefetch ==
    \E i \in Tasks :
        /\ lastEv = [type |-> "store", task |-> i]
        /\ Len(log) = 2
        /\ log[1] = log[2]
        /\ tasks[i].inv = 2
        /\ ~tasks[i].raced
        /\ now > ttl
        /\ store = <<Entry(tasks[i].key, now + ttl, 2)>>

\* C22: the value the cache holds for a key changes only when an invocation
\* of fn for that key completes successfully, and then it becomes that
\* invocation's result: so it is always the result of the most recently
\* completed successful invocation for the key.  A call that returns flag
\* True returns the value the cache holds for its key and invokes nothing;
\* a call that returns flag False made exactly one invocation of fn, its
\* own; fn is invoked by misses only, once per miss.
C22_LatestResultServed ==
    /\ [](\A i \in Tasks :
            (/\ tasks[i].pc = "returned"
             /\ ~tasks[i].cached
             /\ tasks[i].latest
             /\ tasks[i].key \in StoreKeys(store))
            => store[IndexOf(store, tasks[i].key)].value = tasks[i].value)
    /\ [][/\ \A n \in 1..Len(store') :
                \/ \E m \in 1..Len(store) : store[m] = store'[n]
                \/ \E i \in Tasks :
                      /\ Stores(i)
                      /\ store'[n].key = tasks[i].key
                      /\ store'[n].value = tasks'[i].value
          /\ \A i \in Tasks :
                /\ Stores(i)
                    => /\ ~tasks'[i].cached
                       /\ tasks'[i].value \in {None, tasks[i].inv}
                       /\ tasks[i].inv \in 1..Len(log)
                       /\ log[tasks[i].inv] = tasks[i].fn
                       /\ \A j \in Tasks \ {i} : tasks[j].inv # tasks[i].inv
                       /\ log' = log
                       /\ store'[IndexOf(store', tasks[i].key)].value
                             = tasks'[i].value
                /\ (Looks(i) /\ lastEv'.type = "hit")
                    => /\ tasks'[i].pc = "returned"
                       /\ tasks'[i].cached
                       /\ tasks'[i].value
                             = store[IndexOf(store, tasks'[i].key)].value
                       /\ log' = log
          /\ log' # log
                => \E i \in Tasks :
                      /\ Looks(i)
                      /\ lastEv'.type = "miss"
                      /\ ~InFlight(i)
                      /\ log' = Append(log, tasks'[i].fn)
                      /\ tasks'[i].inv = Len(log')]_vars

\* C22 witness: two calls with one key raced; the invocation that completed
\* last was the first one started, and the cache holds its result.
C22_Witness ==
    \E i, j \in Tasks :
        /\ lastEv = [type |-> "store", task |-> i]
        /\ tasks[i].pc = "returned" /\ tasks[j].pc = "returned"
        /\ tasks[i].key = tasks[j].key
        /\ tasks[i].value = 1 /\ tasks[j].value = 2
        /\ tasks[i].latest /\ ~tasks[j].latest
        /\ store = <<Entry(tasks[i].key, now + ttl, 1)>>

\* C22 witness: a call has returned, with flag True, the value the cache
\* holds, result of the second invocation of fn.
C22_WitnessHit ==
    \E i \in Tasks :
        /\ lastEv = [type |-> "hit", task |-> i]
        /\ tasks[i].cached
        /\ tasks[i].value = 2
        /\ Len(log) = 2
        /\ store[IndexOf(store, tasks[i].key)].value = 2

\* An argument that _freeze leaves as it is and that cannot be hashed.
UnhashableScalar(obj) == obj.t = "bytearray"

\* C23: a call with an unhashable scalar among its arguments leaves the
\* wrapper at once with TypeError (unhashable key): fn is not invoked by it,
\* and the store is unchanged.  So fn never runs for such a call, and no key
\* of the store holds such an argument.
C23_UnhashableFailsFast ==
    /\ [][\A i \in Tasks :
            (/\ lastEv'.task = i
             /\ lastEv'.type \in {"hit", "miss", "unhashable"}
             /\ \E n \in 1..Len(tasks'[i].args.v) :
                   UnhashableScalar(tasks'[i].args.v[n]))
            => /\ tasks'[i].pc = "raised"
               /\ tasks'[i].err = TypeError
               /\ store' = store
               /\ log' = log]_vars
    /\ [](\A i \in Tasks :
            InFlight(i) => \A n \in 1..Len(tasks[i].args.v) :
                              ~UnhashableScalar(tasks[i].args.v[n]))
    /\ [](\A m \in 1..Len(store) : \A n \in 1..Len(store[m].key[3].v) :
            ~UnhashableScalar(store[m].key[3].v[n]))

\* C23 witness: with an entry in the store and one invocation made, a call
\* with a bytearray argument has raised TypeError.
C23_Witness ==
    \E i \in Tasks :
        /\ lastEv = [type |-> "unhashable", task |-> i]
        /\ tasks[i].pc = "raised"
        /\ tasks[i].err = TypeError
        /\ UnhashableScalar(tasks[i].args.v[1])
        /\ Len(store) = 1
        /\ Len(log) = 1

\* Call a has returned the result of its own invocation and call b has
\* raised fn's exception, the two having been suspended in fn at the same
\* time with the same key.
RacedPair(a, b) ==
    /\ a # b
    /\ tasks[a].pc = "returned" /\ ~tasks[a].cached /\ tasks[a].raced
    /\ tasks[b].pc = "raised" /\ tasks[b].err \in Errors /\ tasks[b].raced
    /\ tasks[a].key = tasks[b].key

\* The step is a call with the key of task a, made while the entry of that
\* key has not expired.
LooksUpLive(a) ==
    \E i \in Tasks :
        Looks(i) /\ tasks'[i].key = tasks[a].key /\ Live(tasks[a].key)

\* The call made in this step is a hit that returns the result of task a.
HitsResultOf(a) ==
    \E i \in Tasks :
        /\ Looks(i)
        /\ lastEv'.type = "hit"
        /\ tasks'[i].cached
        /\ tasks'[i].value = tasks[a].value
        /\ log' = log

\* C27: when two calls with the same key miss concurrently and one fails
\* while the other succeeds, the failure leaves the store as it is, in
\* either order of completion; once both have completed the store holds the
\* successful result, and within the TTL the wrapper's lookup of that key is
\* a hit on it: the next call with that key returns it with flag True and
\* invokes nothing.
C27_FailureKeepsEntry ==
    /\ [][\A a, b \in Tasks :
            (/\ a # b
             /\ Raises(b)
             /\ tasks[a].key = tasks[b].key
             /\ tasks[a].pc \in {"awaiting", "returned"})
            => store' = store]_vars
    /\ [](\A a, b \in Tasks :
            RacedPair(a, b)
            => /\ \E n \in 1..Len(store) :
                     /\ store[n].key = tasks[a].key
                     /\ store[n].value = tasks[a].value
               /\ Live(tasks[a].key)
                     => /\ IsHit(CacheGetValue(store, tasks[a].key, now))
                        /\ CacheGetValue(store, tasks[a].key, now)
                              = tasks[a].value)
    /\ [][\A a, b \in Tasks :
            (RacedPair(a, b) /\ LooksUpLive(a)) => HitsResultOf(a)]_vars

\* The same for a successful result other than None: the one case in which
\* the property above fails is a result of None.
FailureKeepsEntryNonNone ==
    /\ [][\A a, b \in Tasks :
            (/\ a # b
             /\ Raises(b)
             /\ tasks[a].key = tasks[b].key
             /\ tasks[a].pc \in {"awaiting", "returned"})
            => store' = store]_vars
    /\ [](\A a, b \in Tasks :
            (RacedPair(a, b) /\ tasks[a].value # None)
            => /\ \E n \in 1..Len(store) :
                     /\ store[n].key = tasks[a].key
                     /\ store[n].value = tasks[a].value
               /\ Live(tasks[a].key)
                     => /\ IsHit(CacheGetValue(store, tasks[a].key, now))
                        /\ CacheGetValue(store, tasks[a].key, now)
                              = tasks[a].value)
    /\ [][\A a, b \in Tasks :
            (RacedPair(a, b) /\ tasks[a].value # None /\ LooksUpLive(a))
            => HitsResultOf(a)]_vars

\* The race has happened with the failure completing last, and with the
\* failure completing first.
RacedFailureLast ==
    \E a, b \in Tasks :
        RacedPair(a, b) /\ tasks[a].value # None
            /\ lastEv = [type |-> "raise", task |-> b]

RacedFailureFirst ==
    \E a, b \in Tasks :
        RacedPair(a, b) /\ tasks[a].value # None
            /\ lastEv = [type |-> "store", task |-> a]

\* ------------------------------------------------------------------------
\* Further properties of call_with_retry
\* ------------------------------------------------------------------------
Max(a, b) == IF a >= b THEN a ELSE b

\* C24: when every invocation returns or raises and every sleep ends, the
\* call eventually returns or raises, whatever the pattern of successes and
\* failures, and it never invokes request_exec more than max(retries, 0) + 1
\* times.
C24_Terminates ==
    /\ <>Finished
    /\ [](nexec <= Max(retries, 0) + 1)

\* C24 witness: the call has ended after the largest number of invocations
\* its retries value allows, all but the last followed by a sleep.
C24_Witness ==
    /\ Finished
    /\ retries = MaxRetries
    /\ nexec = retries + 1
    /\ Len(slept) = retries

\* C24 witness: with a negative retries value the call ends after its only
\* invocation has failed with a transient code.
C24_WitnessNegative ==
    /\ Finished
    /\ retries < 0
    /\ nexec = 1
    /\ TransientFailure(LastExec)

RECURSIVE SumSeq(_)
SumSeq(s) == IF s = <<>> THEN 0 ELSE s[1] + SumSeq(Tail(s))

\* The upper bound of the jitter, 0.25 s.
JitterBound == TicksPerSecond \div 4

\* C25: the total time slept during one call never exceeds
\* max(retries, 0) * (cap + 0.25 s), whatever the failures are: there are at
\* most max(retries, 0) sleeps, each of at most cap plus a jitter below
\* 0.25 s.
C25_TotalSleepBound ==
    /\ Len(slept) <= Max(retries, 0)
    /\ \A n \in 1..Len(slept) : slept[n] < cap + JitterBound
    /\ SumSeq(slept) <= Max(retries, 0) * (cap + JitterBound)

\* C25 as stated: the total time slept is at most retries * (cap + 0.25 s).
C25_TotalSleepBoundAsStated ==
    Finished => SumSeq(slept) <= retries * (cap + JitterBound)

\* C25 witness: the call has ended after using all its retries; it slept
\* after every failure but the last, once for the capped delay plus a
\* positive jitter.
C25_Witness ==
    /\ Finished
    /\ retries = MaxRetries
    /\ Len(slept) = retries
    /\ \E n \in 1..Len(slept) : slept[n] > cap
    /\ SumSeq(slept) > retries * base

\* The call has returned a value or has propagated a failure.
Ended == outcome.kind # "none"

\* C26: attempts and sleeps strictly alternate.  The attempt counter equals
\* the number of sleeps performed so far; an invocation is made only when
\* every earlier invocation has been followed by exactly one sleep (so the
\* first one follows no sleep), and it performs no sleep; a sleep is
\* performed only after an invocation that has not been slept for yet, and
\* it invokes nothing; and once the call has returned or has propagated a
\* failure nothing is invoked and nothing is slept.
C26_AttemptsAndSleepsAlternate ==
    /\ [](/\ attempt = Len(slept)
          /\ nexec = Len(execs)
          /\ Ended <=> Finished
          /\ Len(slept) = IF rpc = "calling" THEN nexec ELSE nexec - 1)
    /\ [][/\ nexec' # nexec
             => /\ nexec' = nexec + 1
                /\ Len(slept) = nexec
                /\ slept' = slept
          /\ slept' # slept
             => /\ Len(slept') = Len(slept) + 1
                /\ Len(slept') = nexec
                /\ nexec' = nexec
                /\ ~Ended'
          /\ Ended => UNCHANGED <<nexec, slept, execs, attempt, outcome>>]_vars

\* C26 witness: the third invocation succeeds after two failures, each
\* followed by one sleep, and the call has returned.
C26_Witness ==
    /\ rpc = "returned"
    /\ nexec = 3
    /\ Len(slept) = 2
    /\ attempt = 2
    /\ LastExec.ok

\* C26 witness: the first invocation fails with a failure that is propagated;
\* nothing was slept.
C26_WitnessNoSleep ==
    /\ rpc = "raised"
    /\ nexec = 1
    /\ slept = <<>>
    /\ attempt = 0

\* ------------------------------------------------------------------------
\* Cache keys and the arguments they stand for
\* ------------------------------------------------------------------------
\* Task i has made a call whose key was computed.
HasKey(i) == tasks[i].pc # "idle"

\* C28: two calls of the same memoized function map to the same cache key
\* only when their arguments are equal, and a call served from the cache
\* right after a result was stored receives that result only when its
\* arguments equal those the result was computed for; so f([1, 2]) and
\* f((1, 2)), and f({"a": 1, "b": 2}) and f([("a", 1), ("b", 2)]), have
\* distinct keys.
C28_KeysSeparateArguments ==
    /\ [](\A a, b \in Tasks :
            (/\ HasKey(a)
             /\ HasKey(b)
             /\ tasks[a].fn = tasks[b].fn
             /\ tasks[a].key = tasks[b].key)
            => SameCall(tasks[a], tasks[b]))
    /\ [][(/\ lastEv.type = "store"
           /\ lastEv'.type = "hit"
           /\ tasks'[lastEv'.task].value = tasks[lastEv.task].value)
          => SameCall(tasks[lastEv.task], tasks'[lastEv'.task])]_vars

\* The calls f([1, 2]) and f((1, 2)) of two tasks have one key.
ListAndTupleShareKey ==
    /\ HasKey("t1")
    /\ HasKey("t2")
    /\ tasks["t1"].args = PyTuple(<<PyList(<<PyInt(1), PyInt(2)>>)>>)
    /\ tasks["t2"].args = PyTuple(<<PyTuple(<<PyInt(1), PyInt(2)>>)>>)
    /\ tasks["t1"].fn = tasks["t2"].fn
    /\ tasks["t1"].key = tasks["t2"].key

\* The same for f({"a": 1, "b": 2}) and f([("a", 1), ("b", 2)]).
DictAndPairsShareKey ==
    /\ HasKey("t1")
    /\ HasKey("t2")
    /\ tasks["t1"].args = PyTuple(<<DictAB>>)
    /\ tasks["t2"].args = PyTuple(<<ListAB>>)
    /\ tasks["t1"].fn = tasks["t2"].fn
    /\ tasks["t1"].key = tasks["t2"].key

\* No call is served, right after a result was stored, the result computed
\* for arguments that differ from its own.
NeverServedForOtherArguments ==
    [][~(/\ lastEv.type = "store"
         /\ lastEv'.type = "hit"
         /\ tasks'[lastEv'.task].value = tasks[lastEv.task].value
         /\ tasks'[lastEv'.task].value # None
         /\ ~SameCall(tasks[lastEv.task], tasks'[lastEv'.task]))]_vars

\* ------------------------------------------------------------------------
\* The dicts held by the resolver cache
\* ------------------------------------------------------------------------
\* The dict d is as the lookup built it.
AsProduced(d) == d = ResultDict(d.query, d.listing)

\* The response a tool call returned without a cache hit is the same dict
\* after a following call that is served that dict from the cache.
ReturnedResponseKept ==
    [][(/\ lastEv.type = "store"
        /\ lastEv'.type = "hit"
        /\ tasks'[lastEv'.task].value = tasks[lastEv.task].value)
       => heap'[tasks[lastEv.task].value] = heap[tasks[lastEv.task].value]]_vars

\* C29: the dict the resolver cache holds for a key stays as the lookup
\* produced it, whatever tool calls are made; and the response returned to
\* the caller whose call computed the dict (meta.cached False) is not
\* changed by a later call with the same query that is served from the
\* cache.
C29_CachedValuesUnmodified ==
    /\ [](\A n \in 1..Len(store) : AsProduced(heap[store[n].value]))
    /\ ReturnedResponseKept

\* ------------------------------------------------------------------------
\* Eviction and expired entries (checked under SpecCache)
\* ------------------------------------------------------------------------
\* The latest operation was a set that evicted the entry e: lastOp.mid is the
\* store after the write and before the eviction.
Evicted(e) ==
    /\ lastOp.op = "set"
    /\ Len(lastOp.mid) > maxsize
    /\ \E i \in 1..Len(lastOp.mid) :
          lastOp.mid[i] = e /\ store = RemoveAt(lastOp.mid, i)

\* The entries that the store held when the eviction was decided.
BeforeEviction == {lastOp.mid[i] : i \in 1..Len(lastOp.mid)}

\* C30: when a set evicts an entry while the store holds an entry that has
\* already expired, the evicted entry is an expired one; a live entry is
\* evicted only when every entry of the store is live.
C30_EvictionPrefersStale ==
    \A e \in BeforeEviction :
        Evicted(e)
        => /\ (\E x \in BeforeEviction : IsExpired(now, x.expiry))
                => IsExpired(now, e.expiry)
           /\ ~IsExpired(now, e.expiry)
                => \A x \in BeforeEviction : ~IsExpired(now, x.expiry)

\* C30 witness: a set has evicted an expired entry and the store keeps the
\* live entry just written.
C30_Witness ==
    \E e \in BeforeEviction :
        /\ Evicted(e)
        /\ IsExpired(now, e.expiry)
        /\ e.key # lastOp.key
        /\ \E n \in 1..Len(store) :
              store[n].key = lastOp.key /\ ~IsExpired(now, store[n].expiry)

\* C30 witness: a set has evicted a live entry of another key, every entry
\* being live.
C30_WitnessAllLive ==
    \E e \in BeforeEviction :
        /\ Evicted(e)
        /\ ~IsExpired(now, e.expiry)
        /\ e.key # lastOp.key
        /\ Len(store) >= 1

====
